---- MODULE Spec2Model ----
(***************************************************************************)
(* Model of the options volatility-skew dashboard (DarunSS/Risk).          *)
(*                                                                         *)
(*   src/Dashboard/recent_trial.py  the current script: classify, skew     *)
(*                                  per expiry, rolling baseline, drift    *)
(*   src/Dashboard/latest.py        an earlier variant (its classifier)    *)
(*   src/Dashboard/app.py           the first variant (IV-only drift)      *)
(*                                                                         *)
(* A pandas DataFrame is a record [kind |-> "DataFrame", rows |-> seq];    *)
(* Python's None is NoneVal and a raised exception is Raised.  Implied     *)
(* volatilities are integers in units of 1/Scale of a volatility tick, and *)
(* every quoted value is a whole number of ticks, so that the mean of up   *)
(* to MaxQuotes quotes is computed exactly by integer division.            *)
(***************************************************************************)
EXTENDS Integers, Sequences, FiniteSets, TLC

VARIABLES
    \* ---- one call of the classifier and the skew calculator ----
    options_df,      \* the side's quotes, as fetch_options_data builds them
    classified,      \* classify_options(options_df, spot_price)   (recent_trial.py)
    skew_out,        \* calculate_volatility_skew(classified)      (recent_trial.py)
    latest_out,      \* classify_options(options_df, spot)         (latest.py)
    app_out,         \* calculate_volatility_skew(options_df)      (app.py)
    \* ---- one call of the drift detector ----
    baseline_skew,   \* argument baseline_skew of compare_skews
    current_skew,    \* argument current_skew of compare_skews
    cmp_out,         \* threshold -> compare_skews(...)            (recent_trial.py)
    app_cmp_out,     \* threshold -> compare_skews(...)            (app.py)
    \* ---- the dashboard: one run of main() per cycle ----
    files,           \* baseline_calls_skew.csv / baseline_puts_skew.csv
    report_files,    \* significant_changes_<side>_<date>.csv
    response,        \* what the last cycle's HTTP request returned
    baseline,        \* baseline_calls / baseline_puts loaded by the last cycle
    fetched,         \* calls / puts returned by fetch_options_data
    skew_data,       \* calls_data / puts_data
    significant,     \* significant_call_changes / significant_put_changes
    threshold,       \* the slider's value in the last cycle
    status,          \* how the last run of main() ended
    \* ---- one call of save_baseline_skew, write by write ----
    save_pc          \* the side being saved and where its to_csv stands

vars == <<options_df, classified, skew_out, latest_out, app_out,
          baseline_skew, current_skew, cmp_out, app_cmp_out,
          files, report_files, response, baseline, fetched, skew_data,
          significant, threshold, status, save_pc>>

skewVars == <<options_df, classified, skew_out, latest_out, app_out>>
cmpVars == <<baseline_skew, current_skew, cmp_out, app_cmp_out>>
mainVars == <<files, report_files, response, baseline, fetched, skew_data,
              significant, threshold, status, save_pc>>

----------------------------------------------------------------------------
\* Bounds of the model.

\* longest snapshot of one side handed to the classifier and the calculator
MaxQuotes == 3
\* largest implied volatility of a quote, in ticks
MaxIV == 2
\* longest curve handed to the drift detector
MaxRows == 2
\* most option records in one HTTP response
MaxRecords == 1

\* the static spot price of main()
spot_price == 24800

RECURSIVE Fact(_)
Fact(n) == IF n <= 1 THEN 1 ELSE n * Fact(n - 1)

\* one volatility tick; every n <= MaxQuotes, MaxRecords divides it
Scale == Fact(MaxQuotes) * Fact(MaxRecords)

Strikes == {spot_price - 50, spot_price, spot_price + 50}
Expiries == {1, 2}
IVs == {k * Scale : k \in 0 .. MaxIV}

Quotes == [strikePrice : Strikes, expiryDate : Expiries, impliedVolatility : IVs]

SeqsUpTo(S, n) == UNION {[1 .. k -> S] : k \in 0 .. n}

----------------------------------------------------------------------------
\* Values of Python variables.

NoneVal == [kind |-> "None", rows |-> <<>>]
Raised == [kind |-> "Error", rows |-> <<>>]
NotRun == [kind |-> "NotRun", rows |-> <<>>]
Frame(rows) == [kind |-> "DataFrame", rows |-> rows]

IsFrame(v) == v.kind = "DataFrame"

Abs(x) == IF x < 0 THEN -x ELSE x

RECURSIVE SumSeq(_)
SumSeq(s) == IF s = <<>> THEN 0 ELSE Head(s) + SumSeq(Tail(s))

RECURSIVE MapSeq(_, _)
MapSeq(Op(_), s) == IF s = <<>> THEN <<>> ELSE <<Op(Head(s))>> \o MapSeq(Op, Tail(s))

RECURSIVE Concat(_)
Concat(ss) == IF ss = <<>> THEN <<>> ELSE Head(ss) \o Concat(Tail(ss))

Range(s) == {s[i] : i \in 1 .. Len(s)}

\* the elements of a finite set of integers in ascending order
RECURSIVE SortedSeq(_)
SortedSeq(S) ==
    IF S = {} THEN <<>>
    ELSE LET m == CHOOSE x \in S : \A y \in S : x <= y
         IN <<m>> \o SortedSeq(S \ {m})

----------------------------------------------------------------------------
\* recent_trial.py: the moneyness classifier.

\* (a filter that lets a zero IV through)
PositiveIV_nonneg(iv) == iv >= 0
\* options_df['impliedVolatility'] > 0 (lines 46 and 58)
PositiveIV(iv) == iv > 0

\* lines 47-52: four assignments to the moneyness column, in program order
Moneyness(strike, spot) ==
    LET m0 == "OTM"
        m1 == IF strike = spot THEN "ATM" ELSE m0
        m2 == IF strike < spot THEN "ITM" ELSE m1
        m3 == IF strike > spot THEN "OTM" ELSE m2
    IN m3

Labelled(q, spot) ==
    [strikePrice |-> q.strikePrice, expiryDate |-> q.expiryDate,
     impliedVolatility |-> q.impliedVolatility,
     moneyness |-> Moneyness(q.strikePrice, spot)]

\* classify_options(options_df, spot_price).  A frame without rows is the
\* column-less pd.DataFrame() of fetch_options_data (lines 39-40), on which
\* options_df['impliedVolatility'] raises KeyError.
classify_options(df, spot) ==
    IF df.rows = <<>> THEN Raised
    ELSE LET kept == SelectSeq(df.rows, LAMBDA q : PositiveIV(q.impliedVolatility))
             lab(q) == Labelled(q, spot)
         IN Frame(MapSeq(lab, kept))

----------------------------------------------------------------------------
\* recent_trial.py: the skew calculator.

\* <<>> stands for NaN (the mean of no value) and for None
NaN == <<>>

\* (a reference taken over every row of the group, ATM or not)
AtmIV_allRows(group) ==
    IF group = <<>> THEN NaN
    ELSE <<SumSeq(MapSeq(LAMBDA r : r.impliedVolatility, group)) \div Len(group)>>
\* line 68: the mean implied volatility of the group's ATM rows
AtmIV(group) ==
    LET atm == SelectSeq(group, LAMBDA r : r.moneyness = "ATM")
        ivs == MapSeq(LAMBDA r : r.impliedVolatility, atm)
    IN IF atm = <<>> THEN NaN ELSE <<SumSeq(ivs) \div Len(ivs)>>

\* lines 73-75: the row with its skew and ATM_IV columns
SkewRow(r, atm_iv) ==
    [strikePrice |-> r.strikePrice, moneyness |-> r.moneyness,
     expiryDate |-> r.expiryDate, impliedVolatility |-> r.impliedVolatility,
     skew |-> r.impliedVolatility - atm_iv, ATM_IV |-> atm_iv]

\* lines 66-75: the rows one expiry group appends to skew_data
GroupRows(group) ==
    LET a == AtmIV(group)
        row(r) == SkewRow(r, a[1])
    IN IF a = NaN THEN <<>> ELSE <<MapSeq(row, group)>>

\* calculate_volatility_skew(options_df): the pair (curve, atm_iv) it returns,
\* or Raised when pd.concat is handed an empty list (line 77)
calculate_volatility_skew(df) ==
    LET filtered == SelectSeq(df.rows, LAMBDA r : PositiveIV(r.impliedVolatility))
        expiries == SortedSeq({r.expiryDate : r \in Range(filtered)})
        groupOf(e) == SelectSeq(filtered, LAMBDA r : r.expiryDate = e)
        groups == MapSeq(groupOf, expiries)
        parts == Concat(MapSeq(GroupRows, groups))
    IN IF filtered = <<>> THEN [kind |-> "Pair", data |-> NoneVal, atm_iv |-> NaN]
       ELSE IF parts = <<>> THEN [kind |-> "Error", data |-> Raised, atm_iv |-> NaN]
       ELSE [kind |-> "Pair", data |-> Frame(Concat(parts)),
             atm_iv |-> AtmIV(groups[Len(groups)])]

----------------------------------------------------------------------------
\* latest.py: its classifier (lines 45-50); it keeps every row.

LatestMoneyness(strike, spot) ==
    LET m0 == "OTM"
        m1 == IF strike = spot THEN "ATM" ELSE m0
        m2 == IF strike < spot THEN "ITM" ELSE m1
        m3 == IF strike > spot THEN "ITM" ELSE m2
    IN m3

latest_classify_options(df, spot) ==
    IF df.rows = <<>> THEN Raised
    ELSE LET lab(q) == [strikePrice |-> q.strikePrice, expiryDate |-> q.expiryDate,
                        impliedVolatility |-> q.impliedVolatility,
                        moneyness |-> LatestMoneyness(q.strikePrice, spot)]
         IN [kind |-> "DataFrame", rows |-> MapSeq(lab, df.rows), spot |-> spot]

\* app.py: its skew calculator (lines 55-56): the positive-IV rows, three columns
app_calculate_volatility_skew(df) ==
    IF df.rows = <<>> THEN Raised
    ELSE LET kept == SelectSeq(df.rows, LAMBDA q : PositiveIV(q.impliedVolatility))
             cols(q) == [strikePrice |-> q.strikePrice, expiryDate |-> q.expiryDate,
                         impliedVolatility |-> q.impliedVolatility]
         IN Frame(MapSeq(cols, kept))

----------------------------------------------------------------------------
\* SpecSkew: the classifiers and the skew calculators, each called once on
\* one side's snapshot.

SkewNotRun == [kind |-> "NotRun", data |-> NotRun, atm_iv |-> NaN]

Sides == {"calls", "puts"}

IdleSkew ==
    /\ options_df = NotRun
    /\ classified = NotRun
    /\ skew_out = SkewNotRun
    /\ latest_out = NotRun
    /\ app_out = NotRun

IdleCmp ==
    /\ baseline_skew = NotRun
    /\ current_skew = NotRun
    /\ cmp_out = <<>>
    /\ app_cmp_out = <<>>

InitSkew ==
    /\ options_df \in {Frame(q) : q \in SeqsUpTo(Quotes, MaxQuotes)}
    /\ classified = NotRun
    /\ skew_out = SkewNotRun
    /\ latest_out = NotRun
    /\ app_out = NotRun

\* recent_trial.py, line 188
Classify ==
    /\ classified = NotRun
    /\ classified' = classify_options(options_df, spot_price)
    /\ UNCHANGED <<options_df, skew_out, latest_out, app_out>>
    /\ UNCHANGED <<cmpVars, mainVars>>

\* recent_trial.py, line 192
CalculateSkew ==
    /\ IsFrame(classified)
    /\ skew_out = SkewNotRun
    /\ skew_out' = calculate_volatility_skew(classified)
    /\ UNCHANGED <<options_df, classified, latest_out, app_out>>
    /\ UNCHANGED <<cmpVars, mainVars>>

\* app.py, line 119
AppCalculateSkew ==
    /\ skew_out # SkewNotRun \/ classified = Raised
    /\ app_out = NotRun
    /\ app_out' = app_calculate_volatility_skew(options_df)
    /\ UNCHANGED <<options_df, classified, skew_out, latest_out>>
    /\ UNCHANGED <<cmpVars, mainVars>>

\* latest.py, line 149: the spot price is the user's entry
LatestClassify ==
    /\ app_out # NotRun
    /\ latest_out = NotRun
    /\ \E spot \in Strikes : latest_out' = latest_classify_options(options_df, spot)
    /\ UNCHANGED <<options_df, classified, skew_out, app_out>>
    /\ UNCHANGED <<cmpVars, mainVars>>

NextSkew == Classify \/ CalculateSkew \/ AppCalculateSkew \/ LatestClassify

----------------------------------------------------------------------------
\* recent_trial.py: the drift detector.

\* line 96: the inner join of current_skew with baseline_skew on
\* (strikePrice, expiryDate), in the order of the current rows; lines 99-100:
\* the two change columns
MergedRow(c, b) ==
    [strikePrice |-> c.strikePrice, expiryDate |-> c.expiryDate,
     moneyness_current |-> c.moneyness, moneyness_baseline |-> b.moneyness,
     ATM_IV_change |-> c.impliedVolatility - b.impliedVolatility,
     skew_change |-> c.skew - b.skew]

\* (a join on the expiry alone, the strike left out of its key)
Merge_onExpiry(current, base) ==
    LET matches(c) ==
            LET same == SelectSeq(base, LAMBDA b : b.expiryDate = c.expiryDate)
                mk(b) == MergedRow(c, b)
            IN MapSeq(mk, same)
    IN Concat(MapSeq(matches, current))
Merge(current, base) ==
    LET matches(c) ==
            LET same == SelectSeq(base, LAMBDA b : /\ b.strikePrice = c.strikePrice
                                                   /\ b.expiryDate = c.expiryDate)
                mk(b) == MergedRow(c, b)
            IN MapSeq(mk, same)
    IN Concat(MapSeq(matches, current))

\* line 103: the rows kept for the comparison
IsAtmChange(m) == m.moneyness_current = "ATM"

\* (a test that asks both changes to exceed the threshold)
IsSignificant_both(m, t) == Abs(m.ATM_IV_change) > t /\ Abs(m.skew_change) > t
\* (a test with the comparison reversed)
IsSignificant_below(m, t) == Abs(m.ATM_IV_change) < t \/ Abs(m.skew_change) < t
\* lines 106-109
IsSignificant(m, t) == Abs(m.ATM_IV_change) > t \/ Abs(m.skew_change) > t

\* line 112: the columns of a reported change
ChangeRecord(m) ==
    [strikePrice |-> m.strikePrice, expiryDate |-> m.expiryDate,
     ATM_IV_change |-> m.ATM_IV_change, skew_change |-> m.skew_change]

\* (a detector without the guard)
NothingToCompare_never(base, current) == FALSE
\* lines 92-93
NothingToCompare(base, current) == base = NoneVal \/ current = NoneVal

\* compare_skews(baseline_skew, current_skew, threshold); past the guard of
\* line 92, a None has no merge method and cannot be merged with: line 96 raises
compare_skews(base, current, t) ==
    IF NothingToCompare(base, current) THEN NoneVal
    ELSE IF ~IsFrame(base) \/ ~IsFrame(current) THEN Raised
    ELSE LET merged_skew == Merge(current.rows, base.rows)
             atm_changes == SelectSeq(merged_skew, IsAtmChange)
             significant_changes ==
                 SelectSeq(atm_changes, LAMBDA m : IsSignificant(m, t))
         IN IF significant_changes # <<>>
            THEN Frame(MapSeq(ChangeRecord, significant_changes))
            ELSE NoneVal

----------------------------------------------------------------------------
\* app.py: its drift detector (lines 73-82), on implied volatility alone.

Key(r) == <<r.strikePrice, r.expiryDate>>

\* the keys of {key: iv for row in rows}, in insertion order
RECURSIVE DictKeys(_)
DictKeys(rows) ==
    IF rows = <<>> THEN <<>>
    ELSE LET init == DictKeys(SubSeq(rows, 1, Len(rows) - 1))
             k == Key(rows[Len(rows)])
         IN IF k \in Range(init) THEN init ELSE Append(init, k)

\* dict.get(key): the value of the last row with that key, <<>> for None
DictGet(rows, k) ==
    LET hits == SelectSeq(rows, LAMBDA r : Key(r) = k)
    IN IF hits = <<>> THEN <<>> ELSE <<hits[Len(hits)].impliedVolatility>>

\* line 80
AppIsSignificant(current_iv, baseline_iv, t) == Abs(current_iv - baseline_iv) > t

app_compare_skews(base, current, t) ==
    IF ~IsFrame(base) \/ ~IsFrame(current) THEN Raised
    ELSE LET keys == DictKeys(current.rows)
             hit(k) == /\ DictGet(base.rows, k) # <<>>
                       /\ AppIsSignificant(DictGet(current.rows, k)[1],
                                           DictGet(base.rows, k)[1], t)
             rec(k) == <<k[1], k[2], DictGet(current.rows, k)[1],
                         DictGet(base.rows, k)[1]>>
         IN [kind |-> "list", rows |-> MapSeq(rec, SelectSeq(keys, hit))]

----------------------------------------------------------------------------
\* SpecCompare: the drift detectors called once on a baseline and a curve,
\* at every threshold of Thresholds.

CmpStrikes == {spot_price, spot_price + 50}

CurveRows ==
    {[strikePrice |-> k, moneyness |-> Moneyness(k, spot_price), expiryDate |-> 1,
      impliedVolatility |-> iv, skew |-> sk, ATM_IV |-> iv - sk] :
        k \in CmpStrikes, iv \in {2 * Scale, 3 * Scale}, sk \in {-Scale, Scale}}

Curves == {Frame(rows) : rows \in SeqsUpTo(CurveRows, MaxRows)}

\* the slider's values: below, at and above one tick of change
Thresholds == {Scale \div 2, Scale, (3 * Scale) \div 2}

InitCompare ==
    /\ baseline_skew \in (Curves \ {Frame(<<>>)}) \cup {NoneVal}
    /\ current_skew \in (Curves \ {Frame(<<>>)}) \cup {NoneVal}
    /\ cmp_out = <<>>
    /\ app_cmp_out = <<>>

\* recent_trial.py, line 201
CompareSkews ==
    /\ baseline_skew # NotRun
    /\ cmp_out = <<>>
    /\ cmp_out' = [t \in Thresholds |-> compare_skews(baseline_skew, current_skew, t)]
    /\ UNCHANGED <<baseline_skew, current_skew, app_cmp_out>>
    /\ UNCHANGED <<skewVars, mainVars>>

\* app.py, line 129
AppCompareSkews ==
    /\ cmp_out # <<>>
    /\ app_cmp_out = <<>>
    /\ app_cmp_out' =
           [t \in Thresholds |-> app_compare_skews(baseline_skew, current_skew, t)]
    /\ UNCHANGED <<baseline_skew, current_skew, cmp_out>>
    /\ UNCHANGED <<skewVars, mainVars>>

NextCompare == CompareSkews \/ AppCompareSkews

----------------------------------------------------------------------------
\* recent_trial.py: the baseline files and the report files.

Absent == [exists |-> FALSE, header |-> <<>>, lines |-> <<>>]

CurveHeader ==
    <<"strikePrice", "moneyness", "expiryDate", "impliedVolatility", "skew", "ATM_IV">>
ChangeHeader == <<"strikePrice", "expiryDate", "ATM_IV_change", "skew_change">>

\* DataFrame.to_csv(filename, index=False): a header line, then one line per
\* row with the columns in the header's order; the file is replaced
to_csv(df, header) ==
    LET line(r) == [i \in 1 .. Len(header) |-> r[header[i]]]
    IN [exists |-> TRUE, header |-> header, lines |-> MapSeq(line, df.rows)]

\* pd.read_csv(filename): one row per line, named by the header
read_csv(file) ==
    LET row(l) == [c \in Range(file.header) |->
                      l[CHOOSE i \in 1 .. Len(file.header) : file.header[i] = c]]
    IN Frame(MapSeq(row, file.lines))

\* lines 80-83
load_baseline_skew(file) == IF file.exists THEN read_csv(file) ELSE NoneVal

\* lines 86-88
save_baseline_skew(df, file) == IF df # NoneVal THEN to_csv(df, CurveHeader) ELSE file

\* lines 152-157
save_significant_changes_to_file(changes) == to_csv(changes, ChangeHeader)

\* line 122: df['expiryDate'] on None raises TypeError
plot_volatility_skew(df) == IF IsFrame(df) THEN NoneVal ELSE Raised

----------------------------------------------------------------------------
\* recent_trial.py: fetch_options_data, from the HTTP response on.

RecordStrikes == {spot_price, spot_price + 50}

\* an option's CE / PE entry: <<>> when the key is missing, else <<its IV>>
Legs == {<<>>} \cup {<<k * Scale>> : k \in 0 .. MaxIV}

OptionRecords == [strikePrice : RecordStrikes, expiryDate : {1}, CE : Legs, PE : Legs]

Responses ==
    {[status_code |-> 503, shape |-> "records", data |-> <<>>],
     [status_code |-> 200, shape |-> "no_records", data |-> <<>>],
     [status_code |-> 200, shape |-> "not_json", data |-> <<>>],
     [status_code |-> 200, shape |-> "option_without_strikePrice", data |-> <<>>]}
    \cup {[status_code |-> 200, shape |-> "records", data |-> d] :
             d \in SeqsUpTo(OptionRecords, MaxRecords)}

FetchRaised == [kind |-> "Error", calls |-> NotRun, puts |-> NotRun]

\* lines 27-42
fetch_options_data(resp) ==
    LET legRows(leg) ==
            LET has == SelectSeq(resp.data, LAMBDA o : o[leg] # <<>>)
                row(o) == [strikePrice |-> o.strikePrice, expiryDate |-> o.expiryDate,
                           impliedVolatility |-> o[leg][1]]
            IN Frame(MapSeq(row, has))
    IN IF resp.status_code # 200
       THEN [kind |-> "Pair", calls |-> NoneVal, puts |-> NoneVal]
       ELSE IF resp.shape = "not_json" THEN FetchRaised
       ELSE IF resp.shape = "no_records"
       THEN [kind |-> "Pair", calls |-> NoneVal, puts |-> NoneVal]
       ELSE IF resp.shape = "option_without_strikePrice" THEN FetchRaised
       ELSE [kind |-> "Pair", calls |-> legRows("CE"), puts |-> legRows("PE")]

----------------------------------------------------------------------------
\* recent_trial.py: main(), one run per cycle.

NoSides == [s \in Sides |-> NotRun]
NoChanges == [s \in Sides |-> NoneVal]

\* line 186
FetchSucceeded(f) == f.kind = "Pair" /\ f.calls # NoneVal /\ f.puts # NoneVal

\* lines 205-208: the report of a side is written when its changes are not None
SavedReports(reports0, changes) ==
    [s \in Sides |-> IF changes[s] # NoneVal
                     THEN save_significant_changes_to_file(changes[s])
                     ELSE reports0[s]]

\* (a run that saves each side's curve as soon as it is computed)
SavedBaselines_asComputed(files0, data, completed) ==
    [s \in Sides |-> IF IsFrame(data[s]) THEN to_csv(data[s], CurveHeader)
                     ELSE files0[s]]
\* lines 211-212 are reached when nothing before them raised and the fetch
\* succeeded; each writes one side's file
SavedBaselines(files0, data, completed) ==
    IF completed
    THEN [s \in Sides |-> save_baseline_skew(data[s], files0[s])]
    ELSE files0

\* the state a run of main() leaves, by the statement at which it ends
Ended(how, files0, reports0, base, f, data, changes) ==
    [status |-> how,
     baseline |-> base,
     fetched |-> [s \in Sides |-> f[s]],
     skew_data |-> data,
     significant |-> changes,
     report_files |-> IF how = "ok" THEN SavedReports(reports0, changes) ELSE reports0,
     files |-> SavedBaselines(files0, data, how = "ok")]

RunMain(files0, reports0, resp, thr) ==
    LET base == [s \in Sides |-> load_baseline_skew(files0[s])]       \* 171-172
        f == fetch_options_data(resp)                                  \* 184
        End(how, data, changes) == Ended(how, files0, reports0, base, f, data, changes)
    IN IF f.kind = "Error" THEN End("raised", NoSides, NoChanges)
       ELSE IF ~FetchSucceeded(f) THEN End("fetch_failed", NoSides, NoChanges)  \* 215
       ELSE
       LET calls == classify_options(f.calls, spot_price)             \* 188
       IN IF calls = Raised THEN End("raised", NoSides, NoChanges)
       ELSE
       LET puts == classify_options(f.puts, spot_price)               \* 189
       IN IF puts = Raised THEN End("raised", NoSides, NoChanges)
       ELSE
       LET c == calculate_volatility_skew(calls)                      \* 192
       IN IF c.kind = "Error" THEN End("raised", NoSides, NoChanges)
       ELSE
       LET p == calculate_volatility_skew(puts)                       \* 193
           calls_only == [s \in Sides |-> IF s = "calls" THEN c.data ELSE NotRun]
           data == [s \in Sides |-> IF s = "calls" THEN c.data ELSE p.data]
       IN IF p.kind = "Error" THEN End("raised", calls_only, NoChanges)
       ELSE IF plot_volatility_skew(c.data) = Raised                  \* 196
       THEN End("raised", data, NoChanges)
       ELSE IF plot_volatility_skew(p.data) = Raised                  \* 197
       THEN End("raised", data, NoChanges)
       ELSE
       LET call_changes == compare_skews(base["calls"], c.data, thr)  \* 201
           put_changes == compare_skews(base["puts"], p.data, thr)    \* 202
           changes == [s \in Sides |-> IF s = "calls" THEN call_changes
                                       ELSE put_changes]
           calls_changes_only == [s \in Sides |-> IF s = "calls" THEN call_changes
                                                  ELSE NoneVal]
       IN IF call_changes = Raised THEN End("raised", data, NoChanges)
          ELSE IF put_changes = Raised THEN End("raised", data, calls_changes_only)
          ELSE End("ok", data, changes)

\* no save_baseline_skew is under way
NotSaving == [side |-> "none", at |-> "idle"]

InitMain ==
    /\ files = [s \in Sides |-> Absent]
    /\ report_files = [s \in Sides |-> Absent]
    /\ response = NotRun
    /\ baseline = NoSides
    /\ fetched = NoSides
    /\ skew_data = NoSides
    /\ significant = NoChanges
    /\ threshold = 0
    /\ status = "init"
    /\ save_pc = NotSaving

Main ==
    /\ options_df = NotRun /\ baseline_skew = NotRun
    /\ \E resp \in Responses, thr \in Thresholds :
          \E r \in {RunMain(files, report_files, resp, thr)} :
             /\ response' = resp
             /\ threshold' = thr
             /\ files' = r.files
             /\ report_files' = r.report_files
             /\ baseline' = r.baseline
             /\ fetched' = r.fetched
             /\ skew_data' = r.skew_data
             /\ significant' = r.significant
             /\ status' = r.status
    /\ UNCHANGED <<skewVars, cmpVars, save_pc>>

----------------------------------------------------------------------------
\* recent_trial.py, lines 211-212: one call of save_baseline_skew, followed
\* through the writes that DataFrame.to_csv(filename, index=False) makes on
\* the baseline file itself.

\* one line of the file: the row's values in the header's order
csv_line(r, header) == [i \in 1 .. Len(header) |-> r[header[i]]]

\* the file as open(filename, 'w') leaves it: it exists and holds nothing
Truncated == [exists |-> TRUE, header |-> <<>>, lines |-> <<>>]

\* the stored baselines a call can find: none, or an earlier curve saved whole
StoredBaselines == {Absent} \cup {to_csv(c, CurveHeader) : c \in Curves \ {Frame(<<>>)}}

\* lines 171-172 and 192-193: the baseline of a side was loaded from its
\* file, and its new curve is a non-empty frame or None
InitSave ==
    /\ \E s \in Sides, old \in StoredBaselines :
          /\ files = [o \in Sides |-> IF o = s THEN old ELSE Absent]
          /\ baseline = [o \in Sides |-> IF o = s THEN load_baseline_skew(old)
                                                  ELSE NotRun]
          /\ \E new \in (Curves \ {Frame(<<>>)}) \cup {NoneVal} :
                skew_data = [o \in Sides |-> IF o = s THEN new ELSE NotRun]
          /\ save_pc = [side |-> s, at |-> "called"]
    /\ report_files = [s \in Sides |-> Absent]
    /\ response = NotRun
    /\ fetched = NoSides
    /\ significant = NoChanges
    /\ threshold = 0
    /\ status = "init"

SaveAt(at) == [save_pc EXCEPT !.at = at]

\* line 87: baseline_skew is None, nothing is written
SaveSkip ==
    /\ save_pc.at = "called"
    /\ skew_data[save_pc.side] = NoneVal
    /\ save_pc' = SaveAt("returned")
    /\ UNCHANGED <<files, report_files, response, baseline, fetched, skew_data,
                   significant, threshold, status>>
    /\ UNCHANGED <<skewVars, cmpVars>>

\* line 88: to_csv opens filename for writing, which empties it
SaveOpen ==
    /\ save_pc.at = "called"
    /\ skew_data[save_pc.side] # NoneVal
    /\ files' = [files EXCEPT ![save_pc.side] = Truncated]
    /\ save_pc' = SaveAt("opened")
    /\ UNCHANGED <<report_files, response, baseline, fetched, skew_data,
                   significant, threshold, status>>
    /\ UNCHANGED <<skewVars, cmpVars>>

\* line 88: to_csv writes the header line
SaveWriteHeader ==
    /\ save_pc.at = "opened"
    /\ files' = [files EXCEPT ![save_pc.side].header = CurveHeader]
    /\ save_pc' = SaveAt("rows")
    /\ UNCHANGED <<report_files, response, baseline, fetched, skew_data,
                   significant, threshold, status>>
    /\ UNCHANGED <<skewVars, cmpVars>>

\* line 88: to_csv writes the next row of the curve
SaveWriteRow ==
    /\ save_pc.at = "rows"
    /\ LET s == save_pc.side
            n == Len(files[s].lines)
       IN /\ n < Len(skew_data[s].rows)
          /\ files' = [files EXCEPT ![s].lines =
                          Append(@, csv_line(skew_data[s].rows[n + 1], CurveHeader))]
    /\ UNCHANGED <<report_files, response, baseline, fetched, skew_data,
                   significant, threshold, status, save_pc>>
    /\ UNCHANGED <<skewVars, cmpVars>>

\* line 88: every row is written, to_csv closes the file and returns
SaveClose ==
    /\ save_pc.at = "rows"
    /\ Len(files[save_pc.side].lines) = Len(skew_data[save_pc.side].rows)
    /\ save_pc' = SaveAt("returned")
    /\ UNCHANGED <<files, report_files, response, baseline, fetched, skew_data,
                   significant, threshold, status>>
    /\ UNCHANGED <<skewVars, cmpVars>>

\* line 88: the write raises or the process is stopped before to_csv returns;
\* the function holds no handler and restores nothing
SaveFail ==
    /\ save_pc.at \in {"called", "opened", "rows"}
    /\ skew_data[save_pc.side] # NoneVal
    /\ save_pc' = SaveAt("failed")
    /\ UNCHANGED <<files, report_files, response, baseline, fetched, skew_data,
                   significant, threshold, status>>
    /\ UNCHANGED <<skewVars, cmpVars>>

NextSave ==
    \/ SaveSkip
    \/ SaveOpen
    \/ SaveWriteHeader
    \/ SaveWriteRow
    \/ SaveClose
    \/ SaveFail

----------------------------------------------------------------------------
\* The specifications.

\* the dashboard, cycle after cycle
Init == IdleSkew /\ IdleCmp /\ InitMain
Next == Main
Spec == Init /\ [][Next]_vars

\* the classifier and the skew calculator on one snapshot
SkewInit == InitSkew /\ IdleCmp /\ InitMain
SpecSkew == SkewInit /\ [][NextSkew]_vars

\* the drift detector on one baseline and one curve
CompareInit == IdleSkew /\ InitCompare /\ InitMain
SpecCompare == CompareInit /\ [][NextCompare]_vars

\* one call of save_baseline_skew on one stored baseline and one new curve
SaveInit == IdleSkew /\ IdleCmp /\ InitSave
SpecSave == SaveInit /\ [][NextSave]_vars

----------------------------------------------------------------------------
\* Claims about the drift detector (SpecCompare).

RowsOf(v) == IF IsFrame(v) THEN Range(v.rows) ELSE {}

SameKey(c, b) == c.strikePrice = b.strikePrice /\ c.expiryDate = b.expiryDate

Exceeds(c, b, t) ==
    \/ Abs(c.impliedVolatility - b.impliedVolatility) > t
    \/ Abs(c.skew - b.skew) > t

DeltaRecord(c, b) ==
    [strikePrice |-> c.strikePrice, expiryDate |-> c.expiryDate,
     ATM_IV_change |-> c.impliedVolatility - b.impliedVolatility,
     skew_change |-> c.skew - b.skew]

Compared == cmp_out # <<>> /\ IsFrame(baseline_skew) /\ IsFrame(current_skew)

C9_RaisingThresholdShrinks ==
    /\ cmp_out # <<>> =>
          \A t1, t2 \in Thresholds :
              t1 < t2 => RowsOf(cmp_out[t2]) \subseteq RowsOf(cmp_out[t1])
    /\ app_cmp_out # <<>> =>
          \A t1, t2 \in Thresholds :
              t1 < t2 => Range(app_cmp_out[t2].rows) \subseteq Range(app_cmp_out[t1].rows)

\* C9 witness: both detectors ran, and a higher threshold kept some records
\* of a lower one and dropped others.
C9_Witness ==
    /\ cmp_out # <<>> /\ app_cmp_out # <<>>
    /\ \E t1, t2 \in Thresholds :
          /\ t1 < t2
          /\ RowsOf(cmp_out[t2]) # {}
          /\ RowsOf(cmp_out[t2]) # RowsOf(cmp_out[t1])
          /\ app_cmp_out[t1].kind = "list"
          /\ Range(app_cmp_out[t2].rows) # Range(app_cmp_out[t1].rows)

----------------------------------------------------------------------------
\* Claims about the classifier and the skew calculator (SpecSkew).

\* the snapshot's quotes of expiry e that are at the money with a positive IV
AtmQuotes(e) ==
    SelectSeq(options_df.rows, LAMBDA q : /\ q.expiryDate = e
                                          /\ q.strikePrice = spot_price
                                          /\ q.impliedVolatility > 0)

IVsOf(quotes) == MapSeq(LAMBDA q : q.impliedVolatility, quotes)

Calculated == skew_out # SkewNotRun

\* C2 as stated: for every snapshot with a quote the calculator keeps, also
\* one without any ATM quote, the calculator returns a curve, and a kept quote
\* has a row in it exactly when its expiry group has an ATM quote.
C2_GroupsWithoutAtmExcluded ==
    (Calculated /\ classified.rows # <<>>) =>
        /\ IsFrame(skew_out.data)
        /\ \A r \in Range(classified.rows) :
              AtmQuotes(r.expiryDate) # <<>>
                  <=> \E k \in Range(skew_out.data.rows) :
                          /\ SameKey(k, r)
                          /\ k.impliedVolatility = r.impliedVolatility

\* C3: every row of the curve has skew = impliedVolatility - ATM_IV, its
\* ATM_IV is the mean IV of the ATM quotes of its own expiry, and an ATM row
\* of a group with one ATM quote has skew 0.
C3_SkewIsIvMinusGroupAtmMean ==
    (Calculated /\ IsFrame(skew_out.data)) =>
        \A k \in Range(skew_out.data.rows) :
            LET atm == IVsOf(AtmQuotes(k.expiryDate))
            IN /\ k.skew = k.impliedVolatility - k.ATM_IV
               /\ atm # <<>>
               /\ k.ATM_IV * Len(atm) = SumSeq(atm)
               /\ (Len(atm) = 1 /\ k.moneyness = "ATM") => k.skew = 0

\* C3 witness: a curve with rows of two expiries whose ATM references differ,
\* one of them the mean of two ATM quotes of different IV.
C3_Witness ==
    /\ Calculated /\ IsFrame(skew_out.data)
    /\ \E k \in Range(skew_out.data.rows) : k.moneyness = "ATM" /\ k.skew # 0
    /\ \E k1, k2 \in Range(skew_out.data.rows) :
          k1.expiryDate # k2.expiryDate /\ k1.ATM_IV # k2.ATM_IV

\* C7 as stated: every classifier labels a quote ATM exactly when its strike
\* equals the spot price, ITM exactly when it is below and OTM exactly when it
\* is above.
C7_MoneynessRule ==
    LET rule(strike, spot, m) ==
            /\ m = "ATM" <=> strike = spot
            /\ m = "ITM" <=> strike < spot
            /\ m = "OTM" <=> strike > spot
    IN /\ IsFrame(classified) =>
              \A r \in Range(classified.rows) :
                  rule(r.strikePrice, spot_price, r.moneyness)
       /\ IsFrame(latest_out) =>
              \A r \in Range(latest_out.rows) :
                  rule(r.strikePrice, latest_out.spot, r.moneyness)

\* the snapshot without its quotes of non-positive IV
PositiveOnly == Frame(SelectSeq(options_df.rows, LAMBDA q : q.impliedVolatility > 0))

\* C8: no row of the classified snapshot, of the curve (recent_trial.py and
\* app.py) has an IV <= 0, and the curve is the one the calculator returns
\* for the snapshot without its quotes of IV <= 0: such a quote adds nothing
\* to any ATM reference.
C8_NonPositiveIvIgnored ==
    /\ \A r \in RowsOf(classified) : r.impliedVolatility > 0
    /\ \A r \in RowsOf(app_out) : r.impliedVolatility > 0
    /\ Calculated =>
          /\ \A r \in RowsOf(skew_out.data) : r.impliedVolatility > 0
          /\ PositiveOnly.rows # <<>> =>
                skew_out = calculate_volatility_skew(
                               classify_options(PositiveOnly, spot_price))

\* C8 witness: a curve computed from a snapshot that has, in one expiry, an
\* ATM quote of positive IV and an ATM quote of IV <= 0.
C8_Witness ==
    /\ Calculated /\ IsFrame(skew_out.data) /\ IsFrame(app_out)
    /\ \E i, j \in 1 .. Len(options_df.rows) :
          LET a == options_df.rows[i]
              b == options_df.rows[j]
          IN /\ a.strikePrice = spot_price /\ b.strikePrice = spot_price
             /\ a.expiryDate = b.expiryDate
             /\ a.impliedVolatility > 0 /\ b.impliedVolatility <= 0

----------------------------------------------------------------------------
\* Claims about the cycle (Spec).

\* the last cycle's fetch succeeded (line 186) with quotes for both sides
FetchedBoth == \A s \in Sides : IsFrame(fetched[s]) /\ fetched[s].rows # <<>>

\* the curve of a side's snapshot: the calculator's rows, none when no expiry
\* group of the snapshot has an ATM quote of positive IV
CurveOfFetched(s) ==
    LET kept == SelectSeq(fetched[s].rows, LAMBDA q : q.impliedVolatility > 0)
        hasAtm(e) == \E q \in Range(kept) : q.expiryDate = e /\ q.strikePrice = spot_price
    IN IF \E q \in Range(kept) : hasAtm(q.expiryDate)
       THEN calculate_volatility_skew(classify_options(fetched[s], spot_price)).data
       ELSE Frame(<<>>)

\* C4 as stated: after every cycle whose fetch succeeded, each side's baseline
\* file holds exactly the curve of that cycle's snapshot, so that the next
\* cycle compares against the curve of the last cycle whose fetch succeeded.
C4_BaselineIsLastFetchedCurve ==
    (status # "init" /\ FetchedBoth) =>
        \A s \in Sides : files[s] = to_csv(CurveOfFetched(s), CurveHeader)

\* C5: a cycle whose fetch fails, or whose data is malformed or unusable so
\* that the run raises, leaves both baseline files as they were.
C5_FailedCycleWritesNoBaseline ==
    [][status' # "ok" => files' = files]_vars

\* C5 witness: a cycle ended by an exception after the calls curve had been
\* computed, with an older calls baseline still in its file.
C5_Witness ==
    /\ status = "raised"
    /\ IsFrame(skew_data["calls"])
    /\ files["calls"].exists
    /\ files["calls"] # to_csv(skew_data["calls"], CurveHeader)

\* C6: in a cycle that finds no baseline for a side, the drift detection of
\* that side returns, and returns no record, whatever the side's curve and the
\* threshold, and no report of that side is written.
C6_NoBaselineNoChanges ==
    \A s \in Sides :
        (status # "init" /\ baseline[s] = NoneVal) =>
            /\ significant[s] = NoneVal
            /\ ~report_files[s].exists
            /\ (\A o \in Sides : IsFrame(skew_data[o])) => status = "ok"

\* C6 witness: a cycle that ran to its end without a baseline and with a
\* curve for each side.
C6_Witness ==
    /\ status = "ok"
    /\ \A s \in Sides : baseline[s] = NoneVal /\ IsFrame(skew_data[s])

\* a side's snapshot has quotes, none of them with a positive IV
NoPositiveIV(s) ==
    /\ IsFrame(fetched[s]) /\ fetched[s].rows # <<>>
    /\ \A q \in Range(fetched[s].rows) : q.impliedVolatility <= 0

\* a side's snapshot has an ATM quote of positive IV
HasAtmQuote(s) ==
    /\ IsFrame(fetched[s])
    /\ \E q \in Range(fetched[s].rows) :
          q.strikePrice = spot_price /\ q.impliedVolatility > 0

\* C10 as stated: when a side's snapshot has no quote of positive IV (and the
\* other side's snapshot is of that kind or has an ATM quote), the side's
\* curve is the empty curve and the cycle runs to its end.
C10_NoValidQuoteGivesEmptyCurve ==
    \A s \in Sides :
        (status # "init" /\ NoPositiveIV(s)
            /\ \A o \in Sides \ {s} : NoPositiveIV(o) \/ HasAtmQuote(o)) =>
            /\ skew_data[s] = Frame(<<>>)
            /\ status = "ok"

----------------------------------------------------------------------------
\* Claims about keys of one curve only (SpecCompare).

KeysOf(v) == {<<r.strikePrice, r.expiryDate>> : r \in RowsOf(v)}

\* C12: every record the detectors report has a (strike, expiry) key that
\* occurs in the baseline and in the current curve; a key of one curve only
\* is never reported, whatever the threshold, in recent_trial.py and app.py.
C12_OnlyCommonKeysReported ==
    /\ cmp_out # <<>> =>
          \A t \in Thresholds : \A r \in RowsOf(cmp_out[t]) :
              <<r.strikePrice, r.expiryDate>>
                  \in KeysOf(baseline_skew) \cap KeysOf(current_skew)
    /\ app_cmp_out # <<>> =>
          \A t \in Thresholds : \A r \in Range(app_cmp_out[t].rows) :
              <<r[1], r[2]>> \in KeysOf(baseline_skew) \cap KeysOf(current_skew)

\* C12 witness: both detectors ran on a current curve whose ATM key the
\* baseline lacks, although a baseline row differs from it by more than the
\* threshold, while app.py reported a key the two curves share.
C12_Witness ==
    /\ cmp_out # <<>> /\ app_cmp_out # <<>>
    /\ \E t \in Thresholds :
          /\ Range(app_cmp_out[t].rows) # {}
          /\ \E r \in RowsOf(current_skew), b \in RowsOf(baseline_skew) :
                /\ r.moneyness = "ATM"
                /\ <<r.strikePrice, r.expiryDate>> \notin KeysOf(baseline_skew)
                /\ Abs(r.impliedVolatility - b.impliedVolatility) > t
                /\ Abs(r.skew - b.skew) > t

----------------------------------------------------------------------------
\* Claims about the write of a baseline (SpecSave).

\* the file of the side as it stood before the call, and as a whole write of
\* the new curve leaves it
StoredBefore(s) ==
    IF baseline[s] = NoneVal THEN Absent ELSE to_csv(baseline[s], CurveHeader)
StoredAfter(s) == save_baseline_skew(skew_data[s], StoredBefore(s))

\* a call that returned left what save_baseline_skew computes in one piece
SaveReturnsWhole ==
    save_pc.at = "returned" => files[save_pc.side] = StoredAfter(save_pc.side)

\* C11: when the write of a side's baseline fails or is interrupted, the
\* stored baseline of that side is the whole previous baseline or the whole
\* new curve, never a part-written table.
C11_AtomicReplace ==
    save_pc.at = "failed" =>
        files[save_pc.side] \in {StoredBefore(save_pc.side), StoredAfter(save_pc.side)}

====
